---- MODULE Spec2Model ----
(***************************************************************************)
(* scripts/parse_openrouter_models.py: a linear pipeline that loads a JSON *)
(* document of providers and models, normalises it, prints a summary,      *)
(* filters the "key" providers, derives one configuration per key provider *)
(* and writes a JSON report.                                               *)
(*                                                                         *)
(* Representation.                                                         *)
(*   - A Python str is a tuple of one-character strings, so that lower()   *)
(*     and the `in` substring test are computed character by character.    *)
(*   - A JSON value is a tagged record: null, a string, a number, an       *)
(*     object read only through .get (tag "obj", field o: a function from  *)
(*     the keys present to JSON values) or an object that is iterated (tag *)
(*     "map", field e: the sequence of <<key, value>> pairs in document    *)
(*     order).  isinstance(x, dict) is true of both object tags.           *)
(*   - A Python dict built by the program (providers, models,              *)
(*     key_providers) is a sequence of <<key, value>> pairs with distinct  *)
(*     keys, in insertion order.                                           *)
(*   - Of the twelve fields of a parsed model, the model keeps id, name,   *)
(*     context_limit, cost_input and cost_output; the other seven are      *)
(*     copied with the same .get pattern and read by no later stage        *)
(*     except for printing.                                                *)
(***************************************************************************)
EXTENDS Integers, Sequences, FiniteSets, TLC

VARIABLES file, reportFile, pc, stdout, calls, exception,
          providers, key_providers, configs

vars == <<file, reportFile, pc, stdout, calls, exception,
          providers, key_providers, configs>>

(***************************************************************************)
(* Bounds of the model.                                                    *)
(***************************************************************************)
MaxProviders == 2
MaxModels == 2

(***************************************************************************)
(* Strings.                                                                *)
(***************************************************************************)
UpperLetters ==
  <<"A","B","C","D","E","F","G","H","I","J","K","L","M",
    "N","O","P","Q","R","S","T","U","V","W","X","Y","Z">>

LowerLetters ==
  <<"a","b","c","d","e","f","g","h","i","j","k","l","m",
    "n","o","p","q","r","s","t","u","v","w","x","y","z">>

LowerChar(c) ==
  IF \E i \in DOMAIN UpperLetters : UpperLetters[i] = c
  THEN LowerLetters[CHOOSE i \in DOMAIN UpperLetters : UpperLetters[i] = c]
  ELSE c

\* str.lower()
Lower(s) == [i \in DOMAIN s |-> LowerChar(s[i])]

\* sub in s
Contains(sub, s) ==
  \E i \in 0..(Len(s) - Len(sub)) : SubSeq(s, i + 1, i + Len(sub)) = sub

s_openai == <<"o","p","e","n","a","i">>
s_anthropic == <<"a","n","t","h","r","o","p","i","c">>
s_google == <<"g","o","o","g","l","e">>
s_deepseek == <<"d","e","e","p","s","e","e","k">>
s_groq == <<"g","r","o","q">>
s_meta == <<"m","e","t","a">>
s_xai == <<"x","a","i">>
s_moonshotai == <<"m","o","o","n","s","h","o","t","a","i">>
s_qwen == <<"q","w","e","n">>
s_ollama == <<"o","l","l","a","m","a">>
s_lm_studio == <<"l","m","-","s","t","u","d","i","o">>

\* Provider ids of the input documents: two exact allowlist ids, one that
\* matches only after lower-casing, one that only contains tokens (two of
\* them), and one that matches nothing.
s_OpenAI == <<"O","p","e","n","A","I">>
s_google_vertex_anthropic ==
  <<"g","o","o","g","l","e","-","v","e","r","t","e","x","-",
    "a","n","t","h","r","o","p","i","c">>
s_acme == <<"a","c","m","e">>

ProviderIds ==
  <<s_openai, s_google_vertex_anthropic, s_anthropic, s_OpenAI, s_acme>>

ModelIds == <<<<"m","1">>, <<"m","2">>, <<"m","3">>, <<"m","4">>>>

(***************************************************************************)
(* JSON values.                                                            *)
(***************************************************************************)
JNull == [t |-> "null"]
JStr(s) == [t |-> "str", s |-> s]
JNum(n) == [t |-> "num", n |-> n]
JObj(o) == [t |-> "obj", o |-> o]
JMap(e) == [t |-> "map", e |-> e]

EmptyObj == JObj(<<>>)

\* isinstance(x, dict)
IsDict(x) == x.t \in {"obj", "map"}

\* d.get(key, default) on a dict read by key
Get(d, key, default) == IF key \in DOMAIN d.o THEN d.o[key] ELSE default

(***************************************************************************)
(* Python dicts built by the program: insertion-ordered pairs.             *)
(***************************************************************************)
Keys(m) == {m[i][1] : i \in DOMAIN m}

Has(m, k) == \E i \in DOMAIN m : m[i][1] = k

Lookup(m, k) == m[CHOOSE i \in DOMAIN m : m[i][1] = k][2]

\* A list of pairs in place of a dict: every assignment appends.
PutAppends(m, k, v) == Append(m, <<k, v>>)

\* m[k] = v: a new key is appended, an existing key keeps its position.
Put(m, k, v) ==
  IF Has(m, k)
  THEN [i \in DOMAIN m |-> IF m[i][1] = k THEN <<k, v>> ELSE m[i]]
  ELSE Append(m, <<k, v>>)

(***************************************************************************)
(* Input documents.                                                        *)
(***************************************************************************)
ContextLimits == {4096, 8192}

s_8k == <<"8","k">>

ModelWithContext(c) == JObj([limit |-> JObj([context |-> c])])

\* Model entries of the documents given to the pipeline: numeric context
\* limits, a context limit that is a string, and a `limit` that is null.
PipelineModelValues ==
  {ModelWithContext(JNum(n)) : n \in ContextLimits}
    \cup {ModelWithContext(JStr(s_8k)), JObj([limit |-> JNull])}

\* Model entries of the documents given to the parser alone: the above, a
\* model with no fields, a model entry that is a string, a `cost` that is
\* null.
ParserModelValues ==
  PipelineModelValues \cup {EmptyObj, JStr(s_8k), JObj([cost |-> JNull])}

\* Provider entries without any model entry.
PipelineEmptyProviders == {JNull, EmptyObj}

ParserEmptyProviders ==
  {JNull, EmptyObj, JObj([models |-> JNull]), JObj([models |-> JMap(<<>>)])}

\* The number of model entries of the first i providers.
RECURSIVE ModelsBefore(_, _)
ModelsBefore(counts, i) ==
  IF i = 0 THEN 0 ELSE counts[i] + ModelsBefore(counts, i - 1)

\* The document with provider ids `keys`, in this order; provider i has
\* counts[i] model entries, keyed ModelIds[1..counts[i]], taken in order
\* from `values`; a provider without model entries is empties[i].
Document(keys, counts, empties, values) ==
  [i \in DOMAIN keys |->
     <<keys[i],
       IF counts[i] = 0
       THEN empties[i]
       ELSE JObj([models |->
              JMap([j \in 1..counts[i] |->
                      <<ModelIds[j], values[ModelsBefore(counts, i - 1) + j]>>])])>>]

JsonFile(d) == [kind |-> "object", data |-> d]

\* A missing file, a file that cannot be opened, one that is not JSON, one
\* whose top-level value is a list.
MissingFile == [kind |-> "missing", data |-> <<>>]
UnreadableFile == [kind |-> "unreadable", data |-> <<>>]
InvalidFile == [kind |-> "invalid", data |-> <<>>]
ArrayFile == [kind |-> "array", data |-> <<>>]

Range(seq) == {seq[i] : i \in DOMAIN seq}

\* f is a JSON file of at most MaxProviders providers with distinct ids and
\* at most MaxModels model entries in all.
IsDocumentFile(f, ids, emptyProviders, modelValues) ==
  \E n \in 0..MaxProviders :
    \E keys \in [1..n -> ids] :
      /\ \A i, j \in 1..n : i # j => keys[i] # keys[j]
      /\ \E counts \in [1..n -> 0..MaxModels] :
           /\ ModelsBefore(counts, n) <= MaxModels
           /\ \E empties \in [1..n -> emptyProviders] :
                /\ \A i \in 1..n :
                     counts[i] > 0 => empties[i] = CHOOSE e \in emptyProviders : TRUE
                /\ \E values \in [1..ModelsBefore(counts, n) -> modelValues] :
                     f = JsonFile(Document(keys, counts, empties, values))

ParserIds == {s_openai, s_OpenAI, s_acme}

(***************************************************************************)
(* parse_openrouter_models                                                 *)
(***************************************************************************)
Returned(v) == [ok |-> TRUE, value |-> v, error |-> "none"]
Raised(e) == [ok |-> FALSE, value |-> <<>>, error |-> e]

\* model_info.get('limit', {}).get(...), model_info.get('cost', {}).get(...)
\* raise AttributeError when the first .get returns something that is no dict.
ModelRaises(model_info) ==
  \/ ~IsDict(Get(model_info, "limit", EmptyObj))
  \/ ~IsDict(Get(model_info, "cost", EmptyObj))

ModelRecord(model_id, model_info) ==
  [id |-> Get(model_info, "id", JStr(model_id)),
   name |-> Get(model_info, "name", JStr(model_id)),
   context_limit |-> Get(Get(model_info, "limit", EmptyObj), "context", JNum(0)),
   cost_input |-> Get(Get(model_info, "cost", EmptyObj), "input", JNum(0)),
   cost_output |-> Get(Get(model_info, "cost", EmptyObj), "output", JNum(0))]

IsDictEntry(e) == IsDict(e[2])

\* `break` in place of `continue`: the loop ends at the first entry that is
\* no dict.
ParseModelsBreaks(entries) ==
  LET bad == {j \in DOMAIN entries : ~IsDict(entries[j][2])}
      stop == IF bad = {} THEN Len(entries) + 1
              ELSE CHOOSE j \in bad : \A k \in bad : j <= k
      kept == SubSeq(entries, 1, stop - 1)
  IN  [j \in DOMAIN kept |-> <<kept[j][1], ModelRecord(kept[j][1], kept[j][2])>>]

\* The inner loop: the models mapping of one provider.
ParseModels(entries) ==
  LET kept == SelectSeq(entries, IsDictEntry)
  IN  [j \in DOMAIN kept |-> <<kept[j][1], ModelRecord(kept[j][1], kept[j][2])>>]

\* provider_info.get('models', {}).items() raises AttributeError when
\* `models` is no dict; so does a model whose limit or cost is no dict.
ProviderRaises(provider_info) ==
  LET models == Get(provider_info, "models", JMap(<<>>))
  IN  \/ ~IsDict(models)
      \/ \E j \in DOMAIN models.e :
            IsDict(models.e[j][2]) /\ ModelRaises(models.e[j][2])

ProviderRecord(provider_id, provider_info) ==
  LET models == ParseModels(Get(provider_info, "models", JMap(<<>>)).e)
  IN  [id |-> provider_id,
       name |-> Get(provider_info, "name", JStr(provider_id)),
       api |-> Get(provider_info, "api", JStr(<<>>)),
       doc |-> Get(provider_info, "doc", JStr(<<>>)),
       model_count |-> Len(models),
       models |-> models]

\* `>= 0` in place of the truth test of `if models:`.
KeepsEmptyProviders(e) == e[2].model_count >= 0

HasModels(e) == e[2].models # <<>>

parse_openrouter_models(f) ==
  CASE f.kind \in {"missing", "unreadable"} -> Raised("OSError")
    [] f.kind = "invalid" -> Raised("JSONDecodeError")
    [] f.kind = "array" -> Raised("AttributeError")
    [] OTHER ->
         LET dicts == SelectSeq(f.data, IsDictEntry)
         IN  IF \E i \in DOMAIN dicts : ProviderRaises(dicts[i][2])
             THEN Raised("AttributeError")
             ELSE Returned(SelectSeq(
                    [i \in DOMAIN dicts |->
                       <<dicts[i][1], ProviderRecord(dicts[i][1], dicts[i][2])>>],
                    HasModels))

(***************************************************************************)
(* Ordering of JSON values as Python orders them: numbers with numbers,    *)
(* strings with strings (by code point); anything else raises TypeError.   *)
(***************************************************************************)
CodePoints ==
  <<"-","0","1","2","3","4","5","6","7","8","9">> \o UpperLetters \o LowerLetters

Code(c) == CHOOSE i \in DOMAIN CodePoints : CodePoints[i] = c

StrGreater(a, b) ==
  \E i \in 1..Len(a) :
    /\ \A j \in 1..(i - 1) : j <= Len(b) /\ a[j] = b[j]
    /\ (i > Len(b) \/ Code(a[i]) > Code(b[i]))

Orderable(a, b) == a.t = b.t /\ a.t \in {"num", "str"}

\* a > b, for orderable a and b
Greater(a, b) == IF a.t = "num" THEN a.n > b.n ELSE StrGreater(a.s, b.s)

Contexts(models) == [j \in DOMAIN models |-> models[j][2].context_limit]

\* The comparisons of sorted() or max() over these keys raise TypeError.
CompareRaises(keys) ==
  /\ Len(keys) >= 2
  /\ \E i, j \in DOMAIN keys : i # j /\ ~Orderable(keys[i], keys[j])

\* min in place of max: the first of the least.
FirstMin(keys) ==
  CHOOSE i \in DOMAIN keys :
    /\ \A j \in DOMAIN keys : ~Greater(keys[i], keys[j])
    /\ \A j \in 1..(i - 1) : Greater(keys[j], keys[i])

\* max(..., key=...): the first of the greatest.
FirstMax(keys) ==
  CHOOSE i \in DOMAIN keys :
    /\ \A j \in DOMAIN keys : ~Greater(keys[j], keys[i])
    /\ \A j \in 1..(i - 1) : Greater(keys[i], keys[j])

Without(seq, i) == SubSeq(seq, 1, i - 1) \o SubSeq(seq, i + 1, Len(seq))

\* sorted(models.values(), key=context_limit, reverse=True): stable.
RECURSIVE SortedByContext(_)
SortedByContext(models) ==
  IF models = <<>>
  THEN <<>>
  ELSE LET i == FirstMax(Contexts(models))
       IN  <<models[i]>> \o SortedByContext(Without(models, i))

(***************************************************************************)
(* print_provider_summary                                                  *)
(***************************************************************************)
TopModels == 5

Take(seq, n) == SubSeq(seq, 1, IF Len(seq) < n THEN Len(seq) ELSE n)

\* Printing one model: `context_limit > 0` needs a number, and so does the
\* :.3f format of the two costs.
ModelPrintRaises(model) ==
  \/ model.context_limit.t # "num"
  \/ model.cost_input.t # "num"
  \/ model.cost_output.t # "num"

ProviderPrintRaises(provider) ==
  \/ CompareRaises(Contexts(provider.models))
  \/ LET top == Take(SortedByContext(provider.models), TopModels)
     IN  \E j \in DOMAIN top : ModelPrintRaises(top[j][2])

print_provider_summary(provs) ==
  IF \E i \in DOMAIN provs : ProviderPrintRaises(provs[i][2])
  THEN Raised("TypeError")
  ELSE Returned(<<>>)

(***************************************************************************)
(* extract_key_providers                                                   *)
(***************************************************************************)
AllowlistSource ==
  <<s_openai, s_anthropic, s_google, s_deepseek, s_groq, s_meta, s_xai,
    s_moonshotai, s_qwen, s_ollama, s_lm_studio>>

key_provider_ids == Range(AllowlistSource)

\* Without .lower(): the substring test is case-sensitive.
IsVariationCaseSensitive(provider_id, full_id) == Contains(provider_id, full_id)

\* provider_id in full_id.lower()
IsVariation(provider_id, full_id) == Contains(provider_id, Lower(full_id))

\* IsVariation, tabulated once for the allowlist tokens and the provider ids
\* of the input documents.
VariationTable ==
  [t \in key_provider_ids |->
     [id \in Range(ProviderIds) |-> IsVariation(t, id)]]

\* The inner loop over providers.items() for one allowlist token.
RECURSIVE VariationLoop(_, _, _, _)
VariationLoop(kp, token, provs, i) ==
  IF i > Len(provs)
  THEN kp
  ELSE VariationLoop(
         IF VariationTable[token][provs[i][1]]
         THEN Put(kp, provs[i][1], provs[i][2])
         ELSE kp,
         token, provs, i + 1)

\* The outer loop over the allowlist, in the iteration order `order`.
RECURSIVE AllowlistLoop(_, _, _, _)
AllowlistLoop(kp, order, provs, t) ==
  IF t > Len(order)
  THEN kp
  ELSE LET exact == IF Has(provs, order[t])
                    THEN Put(kp, order[t], Lookup(provs, order[t]))
                    ELSE kp
       IN  AllowlistLoop(VariationLoop(exact, order[t], provs, 1),
                         order, provs, t + 1)

extract_key_providers(provs, order) == AllowlistLoop(<<>>, order, provs, 1)

\* key_provider_ids is a Python set of strings: its iteration order is not
\* fixed.  A token that no id of ProviderIds contains inserts nothing
\* wherever it stands, so the orders enumerated are those of the tokens that
\* some id contains, followed by the other tokens.
MatchingTokens ==
  {t \in key_provider_ids : \E id \in Range(ProviderIds) : Contains(t, Lower(id))}

IsOther(t) == t \notin MatchingTokens

KeyOrders ==
  {p \o SelectSeq(AllowlistSource, IsOther) :
     p \in {q \in [1..Cardinality(MatchingTokens) -> MatchingTokens] :
              Range(q) = MatchingTokens}}

(***************************************************************************)
(* generate_provider_configs                                               *)
(***************************************************************************)
provider_mapping ==
  <<<<s_openai, "OPENAI", "gpt-5.1">>,
    <<s_anthropic, "ANTHROPIC", "claude-sonnet-4">>,
    <<s_google, "GOOGLE", "gemini-2.5-pro">>,
    <<s_deepseek, "DEEPSEEK", "deepseek-chat">>,
    <<s_groq, "GROQ", "llama2-70b-4096">>,
    <<s_meta, "META", "llama-4-scout">>,
    <<s_xai, "XAI", "grok-4">>,
    <<s_moonshotai, "MOONSHOT", "kimi-k2-thinking">>,
    <<s_qwen, "QWEN", "qwen3-235b-a22b-instruct">>,
    <<s_ollama, "OLLAMA", "llama2">>,
    <<s_lm_studio, "LM_STUDIO", "llama-2-7b-chat">>>>

\* provider_id in provider_mapping
InMapping(provider_id) ==
  \E i \in DOMAIN provider_mapping : provider_mapping[i][1] = provider_id

MappingOf(provider_id) ==
  provider_mapping[CHOOSE i \in DOMAIN provider_mapping :
                     provider_mapping[i][1] = provider_id]

\* best_model = max(provider['models'].values(), key=context_limit)
BestModel(provider) ==
  provider.models[FirstMax(Contexts(provider.models))][2]

ProviderConfig(provider_id, provider) ==
  [mafia_provider |-> MappingOf(provider_id)[2],
   original_id |-> provider_id,
   name |-> provider.name,
   api |-> provider.api,
   default_model |-> MappingOf(provider_id)[3],
   best_model |-> BestModel(provider).name,
   best_model_context |-> BestModel(provider).context_limit,
   total_models |-> provider.model_count]

IsMapped(e) == InMapping(e[1])

\* configs.insert(0, config) in place of configs.append(config).
generate_provider_configs_reversed(provs) ==
  LET mapped == SelectSeq(provs, IsMapped)
  IN  Returned([i \in DOMAIN mapped |->
                  ProviderConfig(mapped[Len(mapped) + 1 - i][1],
                                 mapped[Len(mapped) + 1 - i][2])])

generate_provider_configs(provs) ==
  LET mapped == SelectSeq(provs, IsMapped)
  IN  IF \E i \in DOMAIN mapped : mapped[i][2].models = <<>>
      THEN Raised("ValueError")
      ELSE IF \E i \in DOMAIN mapped : CompareRaises(Contexts(mapped[i][2].models))
      THEN Raised("TypeError")
      ELSE Returned([i \in DOMAIN mapped |->
                       ProviderConfig(mapped[i][1], mapped[i][2])])

(***************************************************************************)
(* main                                                                    *)
(***************************************************************************)
\* The report lists only the providers that have a config.
ReportOfConfigured(provs, kp, cfgs) ==
  [summary |-> [total_providers |-> Len(provs), key_providers |-> Len(kp)],
   providers |-> SelectSeq(kp, IsMapped),
   configs |-> cfgs]

Report(provs, kp, cfgs) ==
  [summary |-> [total_providers |-> Len(provs), key_providers |-> Len(kp)],
   providers |-> kp,
   configs |-> cfgs]

NoContent == Report(<<>>, <<>>, <<>>)

\* The report file before the run: absent, or left by an earlier run.
AbsentReport == [present |-> FALSE, fresh |-> FALSE, report |-> NoContent]
OldReport == [present |-> TRUE, fresh |-> FALSE, report |-> NoContent]

WrittenReport(r) == [present |-> TRUE, fresh |-> TRUE, report |-> r]

Locals ==
  /\ stdout = <<>>
  /\ calls = <<>>
  /\ exception = "none"
  /\ providers = <<>>
  /\ key_providers = <<>>
  /\ configs = <<>>

Init ==
  /\ \/ file \in {MissingFile, UnreadableFile, InvalidFile, ArrayFile}
     \/ IsDocumentFile(file, Range(ProviderIds),
                       PipelineEmptyProviders, PipelineModelValues)
  /\ reportFile \in {AbsentReport, OldReport}
  /\ pc = "start"
  /\ Locals

\* Without the `return`: the run goes on after the error line.
CheckInputFallsThrough ==
  /\ pc = "start"
  /\ stdout' = Append(stdout, IF file.kind = "missing"
                              THEN "Error: File not found"
                              ELSE "Parsing OpenRouter models JSON...")
  /\ pc' = "parse"
  /\ UNCHANGED <<file, reportFile, calls, exception, providers, key_providers, configs>>

\* if not os.path.exists(json_path): print error, return
CheckInput ==
  /\ pc = "start"
  /\ IF file.kind = "missing"
     THEN /\ stdout' = Append(stdout, "Error: File not found")
          /\ pc' = "done"
     ELSE /\ stdout' = Append(stdout, "Parsing OpenRouter models JSON...")
          /\ pc' = "parse"
  /\ UNCHANGED <<file, reportFile, calls, exception, providers, key_providers, configs>>

\* A parser failure is retried.
ParseRetries ==
  /\ pc = "parse"
  /\ calls' = Append(calls, "parse_openrouter_models")
  /\ LET r == parse_openrouter_models(file)
     IN  IF r.ok
         THEN /\ providers' = r.value
              /\ pc' = "summary"
              /\ UNCHANGED exception
         ELSE /\ exception' = r.error
              /\ pc' = "parse"
              /\ UNCHANGED providers
  /\ UNCHANGED <<file, reportFile, stdout, key_providers, configs>>

\* providers = parse_openrouter_models(json_path)
Parse ==
  /\ pc = "parse"
  /\ calls' = Append(calls, "parse_openrouter_models")
  /\ LET r == parse_openrouter_models(file)
     IN  IF r.ok
         THEN /\ providers' = r.value
              /\ pc' = "summary"
              /\ UNCHANGED exception
         ELSE /\ exception' = r.error
              /\ pc' = "failed"
              /\ UNCHANGED providers
  /\ UNCHANGED <<file, reportFile, stdout, key_providers, configs>>

\* print_provider_summary(providers)
Summarize ==
  /\ pc = "summary"
  /\ calls' = Append(calls, "print_provider_summary")
  /\ stdout' = Append(stdout, "OPENROUTER MODELS SUMMARY")
  /\ LET r == print_provider_summary(providers)
     IN  IF r.ok
         THEN /\ pc' = "filter"
              /\ UNCHANGED exception
         ELSE /\ exception' = r.error
              /\ pc' = "failed"
  /\ UNCHANGED <<file, reportFile, providers, key_providers, configs>>

\* key_providers = extract_key_providers(providers)
Filter ==
  /\ pc = "filter"
  /\ calls' = Append(calls, "extract_key_providers")
  /\ stdout' = Append(stdout, "KEY PROVIDERS FOR MAFIA AI BENCHMARK")
  /\ \E order \in KeyOrders :
       key_providers' = extract_key_providers(providers, order)
  /\ pc' = "generate"
  /\ UNCHANGED <<file, reportFile, exception, providers, configs>>

\* configs = generate_provider_configs(key_providers), then the configs
\* are printed
Generate ==
  /\ pc = "generate"
  /\ calls' = Append(calls, "generate_provider_configs")
  /\ LET r == generate_provider_configs(key_providers)
     IN  IF r.ok
         THEN /\ configs' = r.value
              /\ stdout' = Append(stdout, "configs")
              /\ pc' = "write"
              /\ UNCHANGED exception
         ELSE /\ exception' = r.error
              /\ pc' = "failed"
              /\ UNCHANGED <<configs, stdout>>
  /\ UNCHANGED <<file, reportFile, providers, key_providers>>

\* with open(report_path, 'w') as f: json.dump(report, f); print.  open()
\* raises OSError when the directory is missing or not writable.
WriteReport ==
  /\ pc = "write"
  /\ calls' = Append(calls, "open_report")
  /\ \/ /\ reportFile' = WrittenReport(Report(providers, key_providers, configs))
        /\ stdout' = Append(stdout, "Detailed report saved")
        /\ pc' = "done"
        /\ UNCHANGED exception
     \/ /\ exception' = "OSError"
        /\ pc' = "failed"
        /\ UNCHANGED <<reportFile, stdout>>
  /\ UNCHANGED <<file, providers, key_providers, configs>>

Next == CheckInput \/ Parse \/ Summarize \/ Filter \/ Generate \/ WriteReport

Spec == Init /\ [][Next]_vars

\* The parser called on its own, on documents with every kind of malformed
\* entry.
InitParser ==
  /\ \/ file \in {MissingFile, UnreadableFile, InvalidFile, ArrayFile}
     \/ IsDocumentFile(file, ParserIds, ParserEmptyProviders, ParserModelValues)
  /\ reportFile = AbsentReport
  /\ pc = "parse"
  /\ Locals

NextParser == Parse

SpecParser == InitParser /\ [][NextParser]_vars

(***************************************************************************)
(* Properties.                                                             *)
(***************************************************************************)
StageOrder ==
  <<"parse_openrouter_models", "print_provider_summary", "extract_key_providers",
    "generate_provider_configs", "open_report">>

IsPrefix(a, b) == Len(a) <= Len(b) /\ a = SubSeq(b, 1, Len(a))

\* The parser was called and returned.
ParseReturned == Len(calls) >= 1 /\ ~(pc = "failed" /\ Len(calls) = 1)

\* extract_key_providers was called (it cannot raise).
Filtered == Len(calls) >= 3

\* generate_provider_configs was called and returned.
Generated == Len(calls) >= 4 /\ ~(pc = "failed" /\ Len(calls) = 4)

\* This run wrote the report.
ReportWritten == reportFile.fresh

TableKeys == {provider_mapping[i][1] : i \in DOMAIN provider_mapping}

NotMapping(x) == x.t \notin {"obj", "map"}

IsMappingEntry(e) == ~NotMapping(e[2])

\* C1: after extract_key_providers, a provider id of the input mapping is a
\* key of the result iff it equals an allowlist token or its lower-cased form
\* contains one, and every key of the result is a key of the input mapping.
C1_FilterIffAllowlisted ==
  Filtered =>
    /\ \A p \in Keys(providers) :
         (p \in Keys(key_providers))
           <=> (\E t \in key_provider_ids : p = t \/ Contains(t, Lower(p)))
    /\ Keys(key_providers) \subseteq Keys(providers)

\* C1 witness: a filtered mapping that keeps an id matched only
\* case-insensitively and drops an id that matches nothing.
C1_Witness ==
  /\ Filtered
  /\ s_OpenAI \in Keys(key_providers)
  /\ s_acme \in Keys(providers) \ Keys(key_providers)

\* C2: after generate_provider_configs, every provider of the filtered
\* mapping whose id is a key of the static table has exactly one config with
\* its original_id; that config's best_model_context is the greatest
\* context_limit of the provider's models and its total_models is the
\* provider's model_count.
C2_OneConfigWithMaxContext ==
  Generated =>
    \A i \in DOMAIN key_providers :
      key_providers[i][1] \in TableKeys =>
        LET p == key_providers[i][2]
            own == {j \in DOMAIN configs : configs[j].original_id = key_providers[i][1]}
        IN  /\ Cardinality(own) = 1
            /\ \A j \in own :
                 /\ \E m \in DOMAIN p.models :
                      p.models[m][2].context_limit = configs[j].best_model_context
                 /\ \A m \in DOMAIN p.models :
                      p.models[m][2].context_limit.n <= configs[j].best_model_context.n
                 /\ configs[j].total_models = p.model_count

\* C2 witness: a config of a provider with two models whose greater context
\* limit is the second one's.
C2_Witness ==
  /\ Generated
  /\ \E i \in DOMAIN key_providers :
       /\ key_providers[i][1] \in TableKeys
       /\ Len(key_providers[i][2].models) = 2
       /\ key_providers[i][2].models[1][2].context_limit.n
            < key_providers[i][2].models[2][2].context_limit.n

\* The provider entry v of the document has no model entry that is a mapping.
NoSurvivingModel(v) ==
  \/ NotMapping(v)
  \/ "models" \notin DOMAIN v.o
  \/ /\ ~NotMapping(v.o.models)
     /\ \A j \in DOMAIN v.o.models.e : NotMapping(v.o.models.e[j][2])

\* C3: every provider the parser returns has model_count = len(models) >= 1,
\* and a provider entry with no surviving model is not in the output.
C3_ModelCountInvariant ==
  ParseReturned =>
    /\ \A i \in DOMAIN providers :
         /\ providers[i][2].model_count = Len(providers[i][2].models)
         /\ providers[i][2].model_count >= 1
    /\ \A i \in DOMAIN file.data :
         NoSurvivingModel(file.data[i][2]) => ~Has(providers, file.data[i][1])

\* C3 witness: the parser returned a provider and dropped one whose only
\* model entry is no mapping.
C3_Witness ==
  /\ ParseReturned
  /\ providers # <<>>
  /\ \E i \in DOMAIN file.data :
       /\ ~NotMapping(file.data[i][2])
       /\ "models" \in DOMAIN file.data[i][2].o
       /\ ~NotMapping(file.data[i][2].o.models)
       /\ file.data[i][2].o.models.e # <<>>
       /\ NoSurvivingModel(file.data[i][2])

\* C4: with the input file missing, main prints the error line and returns:
\* no stage is called, no exception is raised, the report file is untouched.
C4_MissingInputStops ==
  (file.kind = "missing" /\ pc # "start") =>
    /\ pc = "done"
    /\ stdout = <<"Error: File not found">>
    /\ calls = <<>>
    /\ exception = "none"
    /\ reportFile \in {AbsentReport, OldReport}

\* C4 witness: a finished run on a missing input with a report left by an
\* earlier run.
C4_Witness == file.kind = "missing" /\ pc = "done" /\ reportFile = OldReport

\* C5: the parser raises on no file that holds a JSON object.
C5_ParserRaisesOnlyOnFileErrors ==
  (file.kind = "object" /\ Len(calls) >= 1) => ~(pc = "failed" /\ Len(calls) = 1)

\* The document without its malformed sub-records: top-level entries that
\* are no mapping, and model entries that are no mapping.
CleanProvider(v) ==
  IF "models" \in DOMAIN v.o /\ ~NotMapping(v.o.models)
  THEN JObj([v.o EXCEPT !["models"] = JMap(SelectSeq(@.e, IsMappingEntry))])
  ELSE v

CleanFile(f) ==
  LET kept == SelectSeq(f.data, IsMappingEntry)
  IN  [f EXCEPT !.data = [i \in DOMAIN kept |-> <<kept[i][1], CleanProvider(kept[i][2])>>]]

\* C6: the parser's outcome on a document is its outcome on the document
\* without the malformed sub-records, and no malformed top-level entry or
\* model entry is in the output.
C6_MalformedSkipped ==
  Len(calls) >= 1 =>
    LET r == parse_openrouter_models(CleanFile(file))
    IN  /\ ParseReturned = r.ok
        /\ ~ParseReturned => exception = r.error
        /\ ParseReturned =>
             /\ providers = r.value
             /\ \A i \in DOMAIN file.data :
                  LET id == file.data[i][1]
                      v == file.data[i][2]
                  IN  /\ NotMapping(v) => ~Has(providers, id)
                      /\ Has(providers, id) =>
                           \A j \in DOMAIN v.o.models.e :
                             NotMapping(v.o.models.e[j][2]) =>
                               ~Has(Lookup(providers, id).models, v.o.models.e[j][1])

\* C6 witness: a document with a top-level entry that is no mapping and a
\* provider whose first model entry is no mapping and whose second one is
\* kept.
C6_Witness ==
  /\ ParseReturned
  /\ \E i \in DOMAIN file.data : NotMapping(file.data[i][2])
  /\ \E i \in DOMAIN providers :
       \E k \in DOMAIN file.data :
         /\ file.data[k][1] = providers[i][1]
         /\ Len(file.data[k][2].o.models.e) = 2
         /\ NotMapping(file.data[k][2].o.models.e[1][2])
         /\ Len(providers[i][2].models) = 1

\* C7: in a written report, the original_ids of configs are exactly the
\* filtered ids that are keys of the static table, while every filtered
\* provider, with or without a config, is under `providers` and counted in
\* summary.key_providers.
C7_UnmappedKeptInReport ==
  ReportWritten =>
    LET r == reportFile.report
    IN  /\ {r.configs[j].original_id : j \in DOMAIN r.configs}
             = Keys(key_providers) \cap TableKeys
        /\ r.providers = key_providers
        /\ r.summary.key_providers = Len(key_providers)
        /\ \A k \in Keys(key_providers) \ TableKeys :
             /\ k \in Keys(r.providers)
             /\ \A j \in DOMAIN r.configs : r.configs[j].original_id # k

\* C7 witness: a written report with one config, one provider matched only
\* case-insensitively, and so two providers counted.
C7_Witness ==
  /\ ReportWritten
  /\ Len(reportFile.report.configs) = 1
  /\ s_OpenAI \in Keys(reportFile.report.providers)
  /\ reportFile.report.summary.key_providers = 2

\* C8: the stages are called at most once each and in the order parse,
\* summarize, filter, generate, write; the report is written only by a run
\* in which all five were called and none raised; a run that ended before
\* the write leaves the report file as it was.
C8_StagesInOrder ==
  /\ IsPrefix(calls, StageOrder)
  /\ ReportWritten => (calls = StageOrder /\ exception = "none" /\ pc = "done")
  /\ (pc \in {"done", "failed"} /\ Len(calls) < Len(StageOrder)) =>
       reportFile \in {AbsentReport, OldReport}
  /\ pc = "failed" => exception # "none"

\* C8 witness: the summary raised, and the report of an earlier run is still
\* there.
C8_Witness ==
  /\ pc = "failed"
  /\ calls = SubSeq(StageOrder, 1, 2)
  /\ reportFile = OldReport

\* C9: the configs are in the order of the filtered mapping's keys.
C9_ConfigsInFilteredOrder ==
  Generated =>
    \A i, j \in DOMAIN configs :
      i < j =>
        \E a, b \in DOMAIN key_providers :
          /\ a < b
          /\ key_providers[a][1] = configs[i].original_id
          /\ key_providers[b][1] = configs[j].original_id

\* C9 witness: two configs, openai before anthropic (an order that sorting
\* by id would not give).
C9_Witness ==
  /\ Generated
  /\ Len(configs) = 2
  /\ configs[1].original_id = s_openai
  /\ configs[2].original_id = s_anthropic

\* C10: in a written report, total_providers is the number of parsed
\* providers, key_providers the number of entries of `providers`,
\* len(configs) <= key_providers <= total_providers, every entry of
\* `providers` is a parsed provider's record unchanged, and the configs have
\* distinct original_ids.
C10_ReportCounts ==
  ReportWritten =>
    LET r == reportFile.report
    IN  /\ r.summary.total_providers = Len(providers)
        /\ r.summary.key_providers = Len(r.providers)
        /\ Len(r.configs) <= r.summary.key_providers
        /\ r.summary.key_providers <= r.summary.total_providers
        /\ \A i \in DOMAIN r.providers :
             \E k \in DOMAIN providers : providers[k] = r.providers[i]
        /\ \A i, j \in DOMAIN r.configs :
             r.configs[i].original_id = r.configs[j].original_id => i = j

\* C10 witness: a written report with fewer configs than key providers and
\* fewer key providers than parsed providers.
C10_Witness ==
  /\ ReportWritten
  /\ Len(reportFile.report.configs) < reportFile.report.summary.key_providers
  /\ reportFile.report.summary.key_providers
       < reportFile.report.summary.total_providers

====
